---- MODULE Spec2Model ----
(***************************************************************************)
(* Calculator-MECFLU: the History Store (src/src/components/               *)
(* HistoryPanel.jsx) and the unit-aware calculator (src/src/App.jsx).      *)
(*                                                                         *)
(* Two independent React components, and the pure helpers of the second:   *)
(* four specifications over the same variables:                            *)
(*   Spec      the History Store: mount, add, remove, clear, the           *)
(*             'historyUpdated' listener, React's render of the queued     *)
(*             state updates and the save effect;                          *)
(*   SpecCalc  the Calculator: category selection, input and unit          *)
(*             changes, Calculate, Back;                                   *)
(*   SpecEval  Calculate on every drawn combination of inputs and units;   *)
(*   SpecFn    the helpers convertToSI and formatResultValue on drawn      *)
(*             arguments.                                                  *)
(***************************************************************************)
EXTENDS Integers, Sequences, FiniteSets, TLC

VARIABLES
    \* ---- HistoryPanel ----
    history,     \* useState([]) of HistoryPanel: the value last rendered
    queue,       \* setHistory calls not yet processed by a render
    saveDue,     \* the [history] effect is scheduled and has not run yet
    blob,        \* localStorage item under HISTORY_KEY
    mounted,     \* the mount effects of HistoryPanel have run
    crashed,     \* an exception escaped a render or a state updater
    now,         \* reading of Date.now()
    evicted,     \* number of entries the last render discarded by slice
    added,       \* number of addCalculation calls so far
    dispatched,  \* number of 'historyUpdated' events the component dispatched
    \* ---- Calculator ----
    selectedCalculator,  \* id of the selected category, "" for null
    inputs,              \* object: field name -> entered value
    units,               \* object: field name -> chosen unit label
    result,              \* null, or {value, explanation}
    showFormula,         \* the formula box is shown
    effectDue,           \* the unit-conversion effect is scheduled
    threw,               \* the last Calculate ended in an uncaught exception
    call                 \* a call of a helper function: its arguments and its return value

hvars == <<history, queue, saveDue, blob, mounted, crashed, now, evicted, added,
          dispatched>>

cvars == <<selectedCalculator, inputs, units, result, showFormula, effectDue, threw,
          call>>

vars == <<history, queue, saveDue, blob, mounted, crashed, now, evicted, added,
          dispatched,
          selectedCalculator, inputs, units, result, showFormula, effectDue, threw,
          call>>

(***************************************************************************)
(* Bounds and program constants                                            *)
(***************************************************************************)
MAX_HISTORY == 25

MaxClock == 1        \* largest clock reading explored
MaxPending == 1      \* setHistory calls batched before one render
MaxAdds == 2         \* addCalculation calls in one behaviour
MaxFields == 2       \* the first MaxFields fields of a category are edited

(***************************************************************************)
(* Values                                                                  *)
(***************************************************************************)
\* A JavaScript value held by `history`: an array of entries, or some other
\* JSON value (an object such as {}), which has no entries.
EmptyLog == [isList |-> TRUE, items |-> <<>>]

NonList == [isList |-> FALSE, items |-> <<>>]

\* The keys of the object addCalculation builds.
EntryKeys == {"id", "calculator", "result", "formula", "values", "timestamp"}

\* A history entry: its id, its result, a finite number ("finite"), NaN or
\* an infinity ("nonfinite"), or null ("null"), and the keys it has.  The
\* other fields are strings and objects that JSON keeps as they are.
Entry(id, res) == [id |-> id, result |-> res, keys |-> EntryKeys]

\* calc.result as a caller of addCalculation may pass it.
Results == {"finite", "nonfinite"}

\* JSON.stringify writes NaN and the infinities as null.
StringifyEntry(e) ==
    Entry(e.id, IF e.result = "nonfinite" THEN "null" ELSE e.result)

RECURSIVE StringifyItems(_)
StringifyItems(s) ==
    IF s = <<>> THEN <<>>
    ELSE <<StringifyEntry(Head(s))>> \o StringifyItems(Tail(s))

\* JSON.stringify(history): the text stored in localStorage.
Stringify(v) ==
    IF v.isList
    THEN [kind |-> "json", doc |-> "array", elems |-> StringifyItems(v.items)]
    ELSE [kind |-> "json", doc |-> "object", elems |-> <<>>]

\* JSON.parse(saved) for a text that parses.
Parse(b) ==
    IF b.doc = "array" THEN [isList |-> TRUE, items |-> b.elems]
    ELSE NonList

Absent == [kind |-> "absent", doc |-> "", elems |-> <<>>]

EmptyString == [kind |-> "empty", doc |-> "", elems |-> <<>>]

Corrupt == [kind |-> "corrupt", doc |-> "", elems |-> <<>>]

\* The entries of a log of n calculations recorded before the clock of this
\* model started: newest first, ids -1, -2, ..., -n.
RECURSIVE Older(_)
Older(n) == IF n = 0 THEN <<>> ELSE Append(Older(n - 1), Entry(-n, "finite"))

\* The log an earlier session saved after n calculations.
SavedLog(n) == [isList |-> TRUE, items |-> Older(n)]

\* What localStorage may hold when the component mounts.
InitialBlobs ==
    { Absent, EmptyString, Corrupt,
      Stringify(NonList),
      Stringify(EmptyLog),
      Stringify(SavedLog(MAX_HISTORY - 1)),
      Stringify(SavedLog(MAX_HISTORY)) }

\* `if (saved)`: null (absent) and '' are falsy.
Truthy(b) == b.kind \notin {"absent", "empty"}

\* JSON.parse throws on a text that is not JSON.
ParseThrows(b) == b.kind = "corrupt"

(***************************************************************************)
(* State updates queued by setHistory                                      *)
(***************************************************************************)
NoEntry == Entry(0, "null")

SetUpdate(v) == [op |-> "set", entry |-> NoEntry, id |-> 0, val |-> v]

AddUpdate(e) == [op |-> "add", entry |-> e, id |-> 0, val |-> EmptyLog]

RemoveUpdate(i) == [op |-> "remove", entry |-> NoEntry, id |-> i, val |-> EmptyLog]

\* slice(0, n) cutting one entry too late.
Slice_OffByOne(s, n) == SubSeq(s, 1, IF Len(s) < n + 1 THEN Len(s) ELSE n + 1)

\* slice(0, n)
Slice(s, n) == SubSeq(s, 1, IF Len(s) < n THEN Len(s) ELSE n)

\* prev.filter(item => item.id !== id)
FilterOut(s, i) == SelectSeq(s, LAMBDA e : e.id # i)

\* An updater that throws: spreading or filtering a value that is not an array.
UpdateThrows(u, v) == u.op \in {"add", "remove"} /\ ~v.isList

\* setHistory(value) leaving the previous state in place.
ApplyUpdate_IgnoresSet(u, v) ==
    CASE u.op = "set" -> v
      [] u.op = "add" ->
            [isList |-> TRUE, items |-> Slice(<<u.entry>> \o v.items, MAX_HISTORY)]
      [] u.op = "remove" ->
            [isList |-> TRUE, items |-> FilterOut(v.items, u.id)]

\* The new entry appended at the tail instead of the head.
ApplyUpdate_Append(u, v) ==
    CASE u.op = "set" -> u.val
      [] u.op = "add" ->
            [isList |-> TRUE, items |-> Slice(v.items \o <<u.entry>>, MAX_HISTORY)]
      [] u.op = "remove" ->
            [isList |-> TRUE, items |-> FilterOut(v.items, u.id)]

\* One queued update applied to the previous state.
ApplyUpdate(u, v) ==
    CASE u.op = "set" -> u.val
      [] u.op = "add" ->
            [isList |-> TRUE, items |-> Slice(<<u.entry>> \o v.items, MAX_HISTORY)]
      [] u.op = "remove" ->
            [isList |-> TRUE, items |-> FilterOut(v.items, u.id)]

\* Entries an update discards at the tail (0 or 1).
Cut(u, v) ==
    IF u.op = "add" THEN Len(v.items) + 1 - Len(ApplyUpdate(u, v).items) ELSE 0

\* The queue processed in order; ok = FALSE once an updater has thrown.
RECURSIVE ApplyQueue(_, _)
ApplyQueue(q, st) ==
    IF q = <<>> \/ ~st.ok THEN st
    ELSE IF UpdateThrows(Head(q), st.val)
         THEN [ok |-> FALSE, val |-> st.val, cut |-> st.cut]
         ELSE ApplyQueue(Tail(q), [ok |-> TRUE, val |-> ApplyUpdate(Head(q), st.val),
                                   cut |-> st.cut + Cut(Head(q), st.val)])

\* Lines 15-16 and 22-23: read the item and queue setHistory(JSON.parse(saved)).
ReadSaved(b, q) ==
    IF Truthy(b) /\ ~ParseThrows(b) THEN Append(q, SetUpdate(Parse(b))) ELSE q

(***************************************************************************)
(* The History Store                                                       *)
(***************************************************************************)
HInit ==
    /\ history = EmptyLog
    /\ queue = <<>>
    /\ saveDue = FALSE
    /\ blob \in InitialBlobs
    /\ mounted = FALSE
    /\ crashed = FALSE
    /\ now = 0
    /\ evicted = 0
    /\ added = 0
    /\ dispatched = 0

\* The mount effects with the save effect running before the load effect.
Mount_SaveBeforeLoad ==
    /\ ~mounted
    /\ blob' = Stringify(history)
    /\ queue' = ReadSaved(Stringify(history), queue)
    /\ mounted' = TRUE
    /\ UNCHANGED <<history, saveDue, crashed, now, evicted>>
    /\ UNCHANGED <<added, dispatched, cvars>>

\* The mount effects in source order: load (13-33), save (36-40),
\* window.addCalculation (71-76).
Mount ==
    /\ ~mounted
    /\ queue' = ReadSaved(blob, queue)
    /\ blob' = Stringify(history)
    /\ mounted' = TRUE
    /\ UNCHANGED <<history, saveDue, crashed, now, evicted>>
    /\ UNCHANGED <<added, dispatched, cvars>>

Live == mounted /\ ~crashed

\* The page is reloaded: the component state is lost, localStorage is kept.
Reload ==
    /\ mounted
    /\ history' = EmptyLog
    /\ queue' = <<>>
    /\ saveDue' = FALSE
    /\ mounted' = FALSE
    /\ crashed' = FALSE
    /\ evicted' = 0
    /\ UNCHANGED <<blob, now>>
    /\ UNCHANGED <<added, dispatched, cvars>>

\* addCalculation(calc): the entry gets id Date.now() and calc.result.  The function
\* ends with setHistory; it dispatches no event.
\* Results recorded in this model: any for the first addition of a
\* behaviour, a finite number for those that follow it.
ExploredResults == IF added = 0 THEN Results ELSE {"finite"}

addCalculation ==
    /\ Live
    /\ Len(queue) < MaxPending
    /\ added < MaxAdds
    /\ \E res \in ExploredResults :
          queue' = Append(queue, AddUpdate(Entry(now, res)))
    /\ added' = added + 1
    /\ UNCHANGED <<history, saveDue, blob, mounted, crashed, now, evicted>>
    /\ UNCHANGED <<dispatched, cvars>>

removeItem(id) ==
    /\ Live
    /\ Len(queue) < MaxPending
    /\ queue' = Append(queue, RemoveUpdate(id))
    /\ UNCHANGED <<history, saveDue, blob, mounted, crashed, now, evicted>>
    /\ UNCHANGED <<added, dispatched, cvars>>

clearHistory ==
    /\ Live
    /\ Len(queue) < MaxPending
    /\ queue' = Append(queue, SetUpdate(EmptyLog))
    /\ UNCHANGED <<history, saveDue, blob, mounted, crashed, now, evicted>>
    /\ UNCHANGED <<added, dispatched, cvars>>

\* The 'historyUpdated' listener.
handleHistoryUpdate ==
    /\ Live
    /\ Len(queue) < MaxPending
    /\ queue' = ReadSaved(blob, queue)
    /\ UNCHANGED <<history, saveDue, blob, mounted, crashed, now, evicted>>
    /\ UNCHANGED <<added, dispatched, cvars>>

\* React processes the queued updates and renders.  A pending effect is
\* flushed before the next render.  Rendering a value that is not an array
\* throws at history.map when the panel is open (isOpen), not when closed.
Render ==
    /\ Live
    /\ queue # <<>>
    /\ ~saveDue
    /\ LET st == ApplyQueue(queue, [ok |-> TRUE, val |-> history, cut |-> 0])
       IN  IF ~st.ok
           THEN crashed' = TRUE /\ evicted' = 0 /\ UNCHANGED <<history, saveDue>>
           ELSE /\ history' = st.val
                /\ evicted' = st.cut
                /\ \E isOpen \in BOOLEAN :
                      IF isOpen /\ ~st.val.isList
                      THEN crashed' = TRUE /\ saveDue' = FALSE
                      ELSE crashed' = FALSE /\ saveDue' = TRUE
    /\ queue' = <<>>
    /\ UNCHANGED <<blob, mounted, now>>
    /\ UNCHANGED <<added, dispatched, cvars>>

\* The effect runs without writing.
SaveEffect_NoWrite ==
    /\ Live
    /\ saveDue
    /\ saveDue' = FALSE
    /\ UNCHANGED <<history, queue, blob, mounted, crashed, now, evicted>>
    /\ UNCHANGED <<added, dispatched, cvars>>

\* The [history] effect: localStorage.setItem(HISTORY_KEY, JSON.stringify(history)).
SaveEffect ==
    /\ Live
    /\ saveDue
    /\ blob' = Stringify(history)
    /\ saveDue' = FALSE
    /\ UNCHANGED <<history, queue, mounted, crashed, now, evicted>>
    /\ UNCHANGED <<added, dispatched, cvars>>

\* Time passes.  Date.now() is read by addCalculation alone, so the clock
\* advances while the panel is live and an addition can still follow.
Tick ==
    /\ now < MaxClock
    /\ Live
    /\ added < MaxAdds
    /\ now' = now + 1
    /\ UNCHANGED <<history, queue, saveDue, blob, mounted, crashed, evicted>>
    /\ UNCHANGED <<added, dispatched, cvars>>

\* Entries whose remove button is pressed in this model: those added at a
\* clock reading, and the newest and the oldest entry of a saved log.
ExploredIds == (0..MaxClock) \cup {-1, -MAX_HISTORY}

\* The steps of the History Store.
Next ==
    \/ Mount
    \/ Reload
    \/ addCalculation
    \/ \E id \in ExploredIds : removeItem(id)
    \/ clearHistory
    \/ handleHistoryUpdate
    \/ Render
    \/ SaveEffect
    \/ Tick

(***************************************************************************)
(* JavaScript values of the Calculator                                     *)
(*                                                                         *)
(* A value is a record [t, s, n, d]: t = "undef", "null", "str" (the text  *)
(* s), "num" (the rational n/d in lowest terms, d > 0), "nan", "inf" (the  *)
(* infinity of sign n) or "irr" (a finite positive number whose digits are *)
(* not tracked).  Numbers are exact rationals: the rounding of IEEE        *)
(* doubles and the sign of zero are not modelled.  Unit labels are written *)
(* in ASCII (m2 for m², m3 for m³, Pa.s for Pa·s).                         *)
(***************************************************************************)
Undef == [t |-> "undef", s |-> "", n |-> 0, d |-> 1]

Null == [t |-> "null", s |-> "", n |-> 0, d |-> 1]

Str(x) == [t |-> "str", s |-> x, n |-> 0, d |-> 1]

NaN == [t |-> "nan", s |-> "", n |-> 0, d |-> 1]

Inf(sign) == [t |-> "inf", s |-> "", n |-> sign, d |-> 1]

Irr == [t |-> "irr", s |-> "", n |-> 1, d |-> 1]

\* A number this model does not determine.
Unknown == [t |-> "unknown", s |-> "", n |-> 0, d |-> 1]

\* The integer n as a number value.
Whole(n) == [t |-> "num", s |-> "", n |-> n, d |-> 1]

Abs(x) == IF x < 0 THEN -x ELSE x

RECURSIVE GCD(_, _)
GCD(a, b) == IF b = 0 THEN a ELSE GCD(b, a % b)

\* The number n/d (d # 0) in lowest terms.
Num(n, d) ==
    LET g == GCD(Abs(n), Abs(d))
        sd == IF d < 0 THEN -1 ELSE 1
    IN  [t |-> "num", s |-> "", n |-> (sd * n) \div g, d |-> Abs(d) \div g]

Sgn(x) == IF x < 0 THEN -1 ELSE IF x > 0 THEN 1 ELSE 0

\* Sign of a number value; a zero counts as +0.
SignOf(v) == IF v.t = "num" THEN (IF v.n < 0 THEN -1 ELSE 1) ELSE v.n

IsZero(v) == v.t = "num" /\ v.n = 0

\* ToBoolean: undefined, null, '', 0 and NaN are falsy.
ToBoolean(v) ==
    CASE v.t \in {"undef", "null", "nan"} -> FALSE
      [] v.t = "str" -> v.s # ""
      [] v.t = "num" -> v.n # 0
      [] OTHER -> TRUE

\* parseFloat of the texts a number input can deliver.
parseFloat(text) ==
    CASE text \in {"0", "-0"} -> Whole(0)
      [] text = "2" -> Whole(2)
      [] text = "-2" -> Whole(-2)
      [] OTHER -> NaN

\* ToNumber, as applied by *, / and - to their operands.
ToNumber(v) ==
    CASE v.t = "str" -> IF v.s = "" THEN Whole(0) ELSE parseFloat(v.s)
      [] v.t = "undef" -> NaN
      [] v.t = "null" -> Whole(0)
      [] OTHER -> v

\* The product of two rationals, reduced before it is multiplied out.
MulQ(a, b) ==
    LET k1 == GCD(Abs(a.n), b.d)
        k2 == GCD(Abs(b.n), a.d)
    IN  Num((a.n \div k1) * (b.n \div k2), (a.d \div k2) * (b.d \div k1))

\* a * b on numbers.
MulN(a, b) ==
    CASE a.t = "nan" \/ b.t = "nan" -> NaN
      [] a.t = "inf" \/ b.t = "inf" ->
            IF IsZero(a) \/ IsZero(b) THEN NaN ELSE Inf(SignOf(a) * SignOf(b))
      [] a.t = "irr" \/ b.t = "irr" -> Irr
      [] OTHER -> MulQ(a, b)

\* a / b on numbers.
DivN(a, b) ==
    CASE a.t = "nan" \/ b.t = "nan" -> NaN
      [] a.t = "inf" -> IF b.t = "inf" THEN NaN ELSE Inf(SignOf(a) * SignOf(b))
      [] b.t = "inf" -> Whole(0)
      [] IsZero(b) -> IF IsZero(a) THEN NaN ELSE Inf(SignOf(a))
      [] a.t = "irr" \/ b.t = "irr" -> Irr
      [] OTHER -> MulQ(a, Num(b.d, b.n))

NegN(a) ==
    CASE a.t = "num" -> Num(-a.n, a.d)
      [] a.t = "inf" -> Inf(-a.n)
      [] OTHER -> a

\* a + b on numbers.
AddN(a, b) ==
    CASE a.t = "nan" \/ b.t = "nan" -> NaN
      [] a.t = "inf" -> IF b.t = "inf" /\ b.n # a.n THEN NaN ELSE a
      [] b.t = "inf" -> b
      [] a.t = "irr" \/ b.t = "irr" -> Irr
      [] OTHER -> LET k == GCD(a.d, b.d)
                  IN  Num(a.n * (b.d \div k) + b.n * (a.d \div k), (a.d \div k) * b.d)

Mul(a, b) == MulN(ToNumber(a), ToNumber(b))

Div(a, b) == DivN(ToNumber(a), ToNumber(b))

Sub(a, b) == AddN(ToNumber(a), NegN(ToNumber(b)))

\* a + b on two numbers (no operand is a string where the code adds).
Add(a, b) == AddN(ToNumber(a), ToNumber(b))

\* Math.pow(a, 2)
Square(a) == Mul(a, a)

\* an/ad < bn/bd for ad, bd > 0, by whole parts and then by the inverted
\* remainders, so that no product is formed.
RECURSIVE LessQ(_, _, _, _)
LessQ(an, ad, bn, bd) ==
    IF an \div ad # bn \div bd THEN an \div ad < bn \div bd
    ELSE IF bn % bd = 0 THEN FALSE
    ELSE IF an % ad = 0 THEN TRUE
    ELSE LessQ(bd, bn % bd, ad, an % ad)

\* a < b; any comparison with NaN is false.
Less(a, b) ==
    LET x == ToNumber(a)
        y == ToNumber(b)
    IN  CASE x.t = "nan" \/ y.t = "nan" -> FALSE
          [] x.t = "inf" -> x.n < 0 /\ ~(y.t = "inf" /\ y.n < 0)
          [] y.t = "inf" -> y.n > 0
          [] OTHER -> LessQ(x.n, x.d, y.n, y.d)

\* isNaN(value)
isNaN(v) == ToNumber(v).t = "nan"

(***************************************************************************)
(* Unit Registry and Calculation Catalog                                   *)
(***************************************************************************)
\* A row with twice its factor.
F_Doubled(u, n, d, q) == [unit |-> u, n |-> 2 * n, d |-> d, q |-> q]

\* One row of unitConversions: the factor is n / (d * q).
F(u, n, d, q) == [unit |-> u, n |-> n, d |-> d, q |-> q]

\* unitConversions, each family in the order of its keys.
unitConversions ==
    [ velocity  |-> << F("m/s", 1, 1, 1), F("km/h", 277778, 1000000, 1),
                       F("ft/s", 3048, 10000, 1), F("mph", 44704, 100000, 1) >>,
      area      |-> << F("m2", 1, 1, 1), F("cm2", 1, 10000, 1),
                       F("ft2", 92903, 1000000, 1), F("in2", 64516, 100000000, 1) >>,
      force     |-> << F("N", 1, 1, 1), F("kN", 1000, 1, 1), F("lbf", 444822, 100000, 1) >>,
      pressure  |-> << F("Pa", 1, 1, 1), F("kPa", 1000, 1, 1), F("bar", 100000, 1, 1),
                       F("psi", 689476, 100, 1), F("atm", 101325, 1, 1) >>,
      mass      |-> << F("kg", 1, 1, 1), F("g", 1, 1000, 1),
                       F("lb", 453592, 1000000, 1), F("ton", 1000, 1, 1) >>,
      volume    |-> << F("m3", 1, 1, 1), F("L", 1, 1000, 1), F("cm3", 1, 1000000, 1),
                       F("gal (US)", 378541, 100000000, 1),
                       F("ft3", 283168, 10000000, 1) >>,
      density   |-> << F("kg/m3", 1, 1, 1), F("g/cm3", 1000, 1, 1),
                       F("lb/ft3", 160185, 10000, 1) >>,
      length    |-> << F("m", 1, 1, 1), F("cm", 1, 100, 1), F("mm", 1, 1000, 1),
                       F("ft", 3048, 10000, 1), F("in", 254, 10000, 1),
                       F("km", 1000, 1, 1), F("mi", 160934, 100, 1) >>,
      viscosity |-> << F("Pa.s", 1, 1, 1), F("cP (centiPoise)", 1, 1000, 1),
                       F("P (Poise)", 1, 10, 1) >>,
      flow      |-> << F("m3/s", 1, 1, 1), F("m3/h", 1, 1, 3600), F("L/s", 1, 1000, 1),
                       F("L/min", 1, 1000, 60), F("gal/min (US)", 378541, 100000000, 60) >> ]

Families == DOMAIN unitConversions

\* Object.keys(unitConversions[family])
UnitKeys(family) ==
    [i \in 1..Len(unitConversions[family]) |-> unitConversions[family][i].unit]

SeqRange(s) == {s[i] : i \in 1..Len(s)}

\* unitConversions[family][unit] is defined.
HasUnit(family, unit) ==
    family \in Families /\ unit \in SeqRange(UnitKeys(family))

\* unitConversions[family][unit], for a unit of the family.
FactorOf(family, unit) ==
    LET row == CHOOSE r \in SeqRange(unitConversions[family]) : r.unit = unit
    IN  Num(row.n, row.d * row.q)

Cfg(f, ut, us, du) == [field |-> f, unitType |-> ut, units |-> us, defaultUnit |-> du]

VelocityUnits == <<"m/s", "km/h", "ft/s", "mph">>

AreaUnits == <<"m2", "cm2", "ft2", "in2">>

PressureUnits == <<"Pa", "kPa", "bar", "psi", "atm">>

DensityUnits == <<"kg/m3", "g/cm3", "lb/ft3">>

LengthUnits == <<"m", "cm", "mm", "ft", "in">>

FlowUnits == <<"m3/s", "m3/h", "L/s", "L/min", "gal/min (US)">>

\* inputConfigs of renderCalculatorInputs.
inputConfigs ==
    [ c \in { "flow-rate", "velocity-flow", "pressure", "density", "water-column",
              "reynolds", "relative-roughness", "friction-factor", "head-loss",
              "energy-equation", "pump-power", "npsh", "bernoulli" } |->
      CASE c = "flow-rate" ->
             << Cfg("velocity", "velocity", VelocityUnits, "m/s"),
                Cfg("area", "area", AreaUnits, "m2") >>
        [] c = "velocity-flow" ->
             << Cfg("flow", "flow", FlowUnits, "m3/s"),
                Cfg("area", "area", AreaUnits, "m2") >>
        [] c = "pressure" ->
             << Cfg("force", "force", <<"N", "kN", "lbf">>, "N"),
                Cfg("area", "area", AreaUnits, "m2") >>
        [] c = "density" ->
             << Cfg("mass", "mass", <<"kg", "g", "lb", "ton">>, "kg"),
                Cfg("volume", "volume", <<"m3", "L", "cm3", "gal (US)", "ft3">>, "m3") >>
        [] c = "water-column" ->
             << Cfg("pressure", "pressure", PressureUnits, "Pa") >>
        [] c = "reynolds" ->
             << Cfg("density", "density", DensityUnits, "kg/m3"),
                Cfg("velocity", "velocity", VelocityUnits, "m/s"),
                Cfg("diameter", "length", LengthUnits, "m"),
                Cfg("viscosity", "viscosity",
                    <<"Pa.s", "cP (centiPoise)", "P (Poise)">>, "Pa.s") >>
        [] c = "relative-roughness" ->
             << Cfg("roughness", "length", LengthUnits, "mm"),
                Cfg("diameter", "length", LengthUnits, "m") >>
        [] c = "friction-factor" ->
             << Cfg("reynolds", "dimensionless", <<"">>, ""),
                Cfg("relativeRoughness", "dimensionless", <<"">>, "") >>
        [] c = "head-loss" ->
             << Cfg("frictionFactor", "dimensionless", <<"">>, ""),
                Cfg("length", "length", LengthUnits, "m"),
                Cfg("diameter", "length", LengthUnits, "m"),
                Cfg("velocity", "velocity", VelocityUnits, "m/s"),
                Cfg("kSum", "dimensionless", <<"">>, "") >>
        [] c = "energy-equation" ->
             << Cfg("z1", "length", LengthUnits, "m"),
                Cfg("z2", "length", LengthUnits, "m"),
                Cfg("p1", "pressure", PressureUnits, "Pa"),
                Cfg("p2", "pressure", PressureUnits, "Pa"),
                Cfg("v1", "velocity", VelocityUnits, "m/s"),
                Cfg("v2", "velocity", VelocityUnits, "m/s"),
                Cfg("headLoss", "length", LengthUnits, "m"),
                Cfg("density", "density", DensityUnits, "kg/m3") >>
        [] c = "pump-power" ->
             << Cfg("flow", "flow", FlowUnits, "m3/s"),
                Cfg("head", "length", LengthUnits, "m"),
                Cfg("density", "density", DensityUnits, "kg/m3"),
                Cfg("efficiency", "percentage", <<"%">>, "%") >>
        [] c = "npsh" ->
             << Cfg("atmosphericPressure", "pressure", PressureUnits, "Pa"),
                Cfg("vaporPressure", "pressure", PressureUnits, "Pa"),
                Cfg("suctionHeight", "length", LengthUnits, "m"),
                Cfg("headLoss", "length", LengthUnits, "m"),
                Cfg("density", "density", DensityUnits, "kg/m3") >>
        [] c = "bernoulli" ->
             << Cfg("pressure1", "pressure", PressureUnits, "Pa"),
                Cfg("velocity1", "velocity", VelocityUnits, "m/s"),
                Cfg("height1", "length", LengthUnits, "m"),
                Cfg("velocity2", "velocity", VelocityUnits, "m/s"),
                Cfg("height2", "length", LengthUnits, "m"),
                Cfg("density", "density", DensityUnits, "kg/m3") >> ]

\* calculatorCategories: the ids of the category cards.
calculatorCategories == DOMAIN inputConfigs \cup {"unit-conversion"}

\* The InputFieldSpec of a field of a category.
ConfigOf(c, f) == CHOOSE x \in SeqRange(inputConfigs[c]) : x.field = f

FieldsOf(c) == {x.field : x \in SeqRange(inputConfigs[c])}

(***************************************************************************)
(* Quantity Converter and Formula Evaluator                                *)
(***************************************************************************)
\* obj[key], undefined when the key is absent.
Get(obj, key) == IF key \in DOMAIN obj THEN obj[key] ELSE Undef

\* units[field] || '' : "" stands for undefined and for the empty label.
UnitAt(us, field) == IF field \in DOMAIN us THEN us[field] ELSE ""

\* convertToSI multiplying by 1 where it has no factor.
convertToSI_Coerces(us, value, field, unitType) ==
    IF UnitAt(us, field) # "" /\ HasUnit(unitType, UnitAt(us, field))
    THEN Mul(value, FactorOf(unitType, UnitAt(us, field)))
    ELSE Mul(value, Whole(1))

\* convertToSI(value, field, unitType): the value itself, whatever its type,
\* unless a unit known to the family has been chosen for the field.
convertToSI(us, value, field, unitType) ==
    LET unit == UnitAt(us, field)
    IN  IF unit = "" \/ ~HasUnit(unitType, unit)
        THEN value
        ELSE Mul(value, FactorOf(unitType, unit))

\* The fields tested by the presence check of each case of calculateResult.
Required(c) ==
    CASE c = "flow-rate" -> {"velocity", "area"}
      [] c = "velocity-flow" -> {"flow", "area"}
      [] c = "pressure" -> {"force", "area"}
      [] c = "density" -> {"mass", "volume"}
      [] c = "water-column" -> {"pressure"}
      [] c = "reynolds" -> {"velocity", "diameter", "density", "viscosity"}
      [] c = "relative-roughness" -> {"roughness", "diameter"}
      [] c = "friction-factor" -> {"reynolds", "relativeRoughness"}
      [] c = "head-loss" -> {"frictionFactor", "length", "diameter", "velocity", "kSum"}
      [] c = "energy-equation" ->
            {"z1", "z2", "p1", "p2", "v1", "v2", "headLoss", "density"}
      [] c = "pump-power" -> {"flow", "head", "density", "efficiency"}
      [] c = "npsh" -> {"atmosphericPressure", "vaporPressure", "suctionHeight",
                        "headLoss", "density"}
      [] c = "bernoulli" -> {"pressure1", "velocity1", "height1", "velocity2",
                             "height2", "density"}
      [] c = "unit-conversion" -> {"value", "measurementType", "fromUnit", "toUnit"}

\* The presence check with || for &&.
Present_Any(c, ins) == \E f \in Required(c) : ToBoolean(Get(ins, f))

\* The presence check: every tested field is truthy.
Present(c, ins) == \A f \in Required(c) : ToBoolean(Get(ins, f))

\* The fields whose value reaches the formula without convertToSI.
Direct(c) ==
    CASE c = "friction-factor" -> {"reynolds", "relativeRoughness"}
      [] c = "head-loss" -> {"frictionFactor", "kSum"}
      [] c = "pump-power" -> {"efficiency"}
      [] c = "unit-conversion" -> {"value"}
      [] OTHER -> {}

\* The family each case passes to convertToSI for a field.
UnitTypeOf(c, f) ==
    CASE f \in {"diameter", "roughness", "length", "z1", "z2", "headLoss", "head",
                "suctionHeight", "height1", "height2"} -> "length"
      [] f \in {"velocity", "v1", "v2", "velocity1", "velocity2"} -> "velocity"
      [] f \in {"pressure", "p1", "p2", "atmosphericPressure", "vaporPressure",
                "pressure1"} -> "pressure"
      [] OTHER -> f

\* The value of a field as the formula uses it.
SI(c, ins, us, f) ==
    IF f \in Direct(c) THEN Get(ins, f)
    ELSE convertToSI(us, Get(ins, f), f, UnitTypeOf(c, f))

\* The values on which the explanation calls toFixed.
ToFixedArgs(c, ins, us) ==
    IF c = "unit-conversion" THEN {}
    ELSE {SI(c, ins, us, f) : f \in Required(c) \ {"efficiency"}}

\* x.toFixed(...) is a TypeError when x is a string.
ToFixedThrows(c, ins, us) == \E v \in ToFixedArgs(c, ins, us) : v.t = "str"

g == Num(981, 100)

\* The argument of log10 with p standing for Math.pow(Re, 0.9).
LogArg(e, p) == Add(Div(e, Num(37, 10)), Div(Num(574, 100), p))

\* The friction factor for numbers r and e, lo <= Math.pow(r, 0.9) <= hi.
FrictionBetween(r, e, argLo, argHi) ==
    CASE r.t = "nan" \/ e.t = "nan" -> NaN
      [] r.t # "num" \/ e.t # "num" -> Unknown
      [] r.n < 0 -> NaN
      [] r.n = 0 -> Whole(0)
      [] Less(argHi, Whole(0)) -> NaN
      [] Less(Whole(1), argLo) -> Irr
      [] Less(Whole(0), argLo) /\ Less(argHi, Whole(1)) -> Irr
      [] OTHER -> Unknown

FrictionOf(r, e, lo, hi) == FrictionBetween(r, e, LogArg(e, lo), LogArg(e, hi))

\* Swamee-Jain.  Math.pow(Re, 0.9) is NaN for Re < 0; for Re > 0 it lies
\* between Re and 1, which bounds the argument of log10.  The result is NaN
\* when the argument is negative, a finite positive number when the argument
\* is positive and cannot be 1, and left undetermined otherwise.
frictionFactor(re, rr) ==
    FrictionOf(ToNumber(re), ToNumber(rr),
               IF Less(re, Whole(1)) THEN Whole(1) ELSE ToNumber(re),
               IF Less(re, Whole(1)) THEN ToNumber(re) ELSE Whole(1))

\* The regime of the reynolds case.
Regime(re) ==
    IF Less(re, Whole(2300)) THEN "Laminar"
    ELSE IF Less(re, Whole(4000)) THEN "Transicao"
    ELSE "Turbulento"

\* The unit converter with the two factors exchanged.
Formula_FactorsSwapped(c, ins, us) ==
    LET mt == Get(ins, "measurementType").s
    IN  IF c = "unit-conversion" /\ mt \in Families
        THEN Div(Mul(Get(ins, "value"), FactorOf(mt, Get(ins, "toUnit").s)),
                 FactorOf(mt, Get(ins, "fromUnit").s))
        ELSE NaN

\* The closed-form equation of each case, over the values the case computes.
Formula(c, ins, us) ==
    LET v(f) == SI(c, ins, us, f)
        rho_g == Mul(v("density"), g)
        two_g == Mul(Whole(2), g)
        half == Num(1, 2)
    IN  CASE c = "flow-rate" -> Mul(v("velocity"), v("area"))
          [] c = "velocity-flow" -> Div(v("flow"), v("area"))
          [] c = "pressure" -> Div(v("force"), v("area"))
          [] c = "density" -> Div(v("mass"), v("volume"))
          [] c = "water-column" -> Div(v("pressure"), Mul(Whole(1000), g))
          [] c = "reynolds" ->
                Div(Mul(Mul(v("density"), v("velocity")), v("diameter")), v("viscosity"))
          [] c = "relative-roughness" -> Div(v("roughness"), v("diameter"))
          [] c = "friction-factor" -> frictionFactor(v("reynolds"), v("relativeRoughness"))
          [] c = "head-loss" ->
                Add(Mul(Mul(v("frictionFactor"), Div(v("length"), v("diameter"))),
                        Div(Square(v("velocity")), two_g)),
                    Mul(v("kSum"), Div(Square(v("velocity")), two_g)))
          [] c = "energy-equation" ->
                Add(Add(Add(Div(Sub(v("p2"), v("p1")), rho_g),
                            Div(Sub(Square(v("v2")), Square(v("v1"))), two_g)),
                        Sub(v("z2"), v("z1"))),
                    v("headLoss"))
          [] c = "pump-power" ->
                Div(Mul(Mul(Mul(v("density"), g), v("flow")), v("head")),
                    Div(v("efficiency"), Whole(100)))
          [] c = "npsh" ->
                Sub(Sub(Div(Sub(v("atmosphericPressure"), v("vaporPressure")), rho_g),
                        v("suctionHeight")),
                    v("headLoss"))
          [] c = "bernoulli" ->
                Sub(Sub(Add(Add(v("pressure1"),
                                Mul(Mul(half, v("density")), Square(v("velocity1")))),
                            Mul(Mul(v("density"), g), v("height1"))),
                        Mul(Mul(half, v("density")), Square(v("velocity2")))),
                    Mul(Mul(v("density"), g), v("height2")))
          [] c = "unit-conversion" ->
                LET mt == Get(ins, "measurementType").s
                    from == Get(ins, "fromUnit").s
                    to == Get(ins, "toUnit").s
                    fromFactor == IF HasUnit(mt, from) THEN FactorOf(mt, from) ELSE Undef
                    toFactor == IF HasUnit(mt, to) THEN FactorOf(mt, to) ELSE Undef
                IN  Div(Mul(v("value"), fromFactor), toFactor)

\* unitConversions[measurementType] is undefined: reading a unit of it throws.
LookupThrows(c, ins) ==
    c = "unit-conversion" /\ Get(ins, "measurementType").s \notin Families

NoExplanation == [text |-> "", regime |-> ""]

\* The object passed to setResult once the case has computed val.
Computed(c, val) ==
    [threw |-> FALSE, value |-> val,
     explanation |-> [text |-> "derivation",
                      regime |-> IF c = "reynolds" THEN Regime(val) ELSE ""]]

\* The outcome of calculateResult for a category: threw, or the object
\* passed to setResult.
Evaluate(c, ins, us) ==
    IF ~Present(c, ins)
    THEN [threw |-> FALSE, value |-> Null, explanation |-> NoExplanation]
    ELSE IF LookupThrows(c, ins) \/ ToFixedThrows(c, ins, us)
    THEN [threw |-> TRUE, value |-> Null, explanation |-> NoExplanation]
    ELSE Computed(c, Formula(c, ins, us))

(***************************************************************************)
(* The Calculator component                                                *)
(***************************************************************************)
EmptyObject == [k \in {} |-> Undef]

EmptyUnits == [k \in {} |-> ""]

NoResult == [set |-> FALSE, value |-> Null, explanation |-> NoExplanation]

\* No helper function is being called.
NoCall == [fn |-> "none"]

\* Texts the number inputs deliver in this model.
Texts == {"", "0", "-0", "2", "-2"}

\* Measurement types chosen in the unit converter in this model.
ExploredTypes == {"pressure", "velocity"}

\* A second unit of each family, chosen in the unit selectors in this model.
AltUnit ==
    [ velocity |-> "ft/s", area |-> "cm2", force |-> "kN", pressure |-> "kPa",
      mass |-> "g", volume |-> "L", density |-> "g/cm3", length |-> "cm",
      viscosity |-> "cP (centiPoise)", flow |-> "L/s" ]

\* Options of a field's unit selector chosen in this model.
ExploredUnits(cfg) ==
    {cfg.units[1], cfg.defaultUnit}
        \cup (IF cfg.unitType \in Families THEN {AltUnit[cfg.unitType]} ELSE {})

\* Options of the from/to selectors chosen in this model: the first three
\* units of the selected measurement type.
ExploredConversionUnits(ins) ==
    LET mt == IF ToBoolean(Get(ins, "measurementType"))
              THEN Get(ins, "measurementType").s ELSE "pressure"
    IN  IF mt \in Families THEN {UnitKeys(mt)[i] : i \in 1..3} ELSE {}

\* The fields of a category edited in this model: its first MaxFields fields.
EditedConfigs(c) ==
    {inputConfigs[c][i] : i \in {k \in 1..Len(inputConfigs[c]) : k <= MaxFields}}

CInit ==
    /\ selectedCalculator = ""
    /\ inputs = EmptyObject
    /\ units = EmptyUnits
    /\ result = NoResult
    /\ showFormula = FALSE
    /\ effectDue = FALSE
    /\ threw = FALSE
    /\ call = NoCall

\* The category cards are rendered while no category is selected.
handleCategorySelect(c) ==
    /\ selectedCalculator = ""
    /\ ~effectDue
    /\ selectedCalculator' = c
    /\ inputs' = IF c = "unit-conversion"
                 THEN [measurementType |-> Str("pressure"), value |-> Str("")]
                 ELSE EmptyObject
    /\ units' = EmptyUnits
    /\ result' = NoResult
    /\ showFormula' = FALSE
    /\ effectDue' = (c = "unit-conversion")
    /\ threw' = FALSE
    /\ UNCHANGED <<call, hvars>>

\* handleBack without setResult(null).
handleBack_KeepsResult ==
    /\ selectedCalculator # ""
    /\ ~effectDue
    /\ selectedCalculator' = ""
    /\ inputs' = EmptyObject
    /\ units' = EmptyUnits
    /\ showFormula' = FALSE
    /\ effectDue' = FALSE
    /\ threw' = FALSE
    /\ UNCHANGED <<result, call, hvars>>

handleBack ==
    /\ selectedCalculator # ""
    /\ ~effectDue
    /\ selectedCalculator' = ""
    /\ inputs' = EmptyObject
    /\ units' = EmptyUnits
    /\ result' = NoResult
    /\ showFormula' = FALSE
    /\ effectDue' = FALSE
    /\ threw' = FALSE
    /\ UNCHANGED <<call, hvars>>

\* The value handleInputChange stores for a field.
StoredValue(field, value) ==
    IF value = "" THEN Str("")
    ELSE IF field \in {"measurementType", "fromUnit", "toUnit"} THEN Str(value)
    ELSE IF ToBoolean(parseFloat(value)) THEN parseFloat(value) ELSE Str(value)

handleInputChange(field, value) ==
    /\ selectedCalculator # ""
    /\ ~effectDue
    /\ inputs' = [k \in DOMAIN inputs \cup {field} |->
                    IF k = field THEN StoredValue(field, value) ELSE inputs[k]]
    /\ effectDue' = (field = "measurementType" /\ Get(inputs, field) # Str(value))
    /\ threw' = FALSE
    /\ UNCHANGED <<selectedCalculator, units, result, showFormula>>
    /\ UNCHANGED <<call, hvars>>

handleUnitChange(field, unit) ==
    /\ selectedCalculator # ""
    /\ ~effectDue
    /\ units' = [k \in DOMAIN units \cup {field} |->
                    IF k = field THEN unit ELSE units[k]]
    /\ threw' = FALSE
    /\ UNCHANGED <<selectedCalculator, inputs, result, showFormula, effectDue>>
    /\ UNCHANGED <<call, hvars>>

\* The effect testing only whether fromUnit and toUnit are set, not whether
\* the new measurement type has them.
unitConversionEffect_KeepsStale ==
    /\ effectDue
    /\ LET currentType == Get(inputs, "measurementType").s
           newAvailableUnits ==
               IF currentType \in Families THEN UnitKeys(currentType) ELSE <<>>
           first == IF Len(newAvailableUnits) >= 1
                    THEN Str(newAvailableUnits[1]) ELSE Undef
           second == IF Len(newAvailableUnits) >= 2
                     THEN Str(newAvailableUnits[2]) ELSE first
           stale(f) == ~ToBoolean(Get(inputs, f))
           keys == DOMAIN inputs \cup (IF stale("fromUnit") THEN {"fromUnit"} ELSE {})
                                 \cup (IF stale("toUnit") THEN {"toUnit"} ELSE {})
       IN  inputs' = [k \in keys |->
                        IF k = "fromUnit" /\ stale("fromUnit") THEN first
                        ELSE IF k = "toUnit" /\ stale("toUnit") THEN second
                        ELSE inputs[k]]
    /\ effectDue' = FALSE
    /\ UNCHANGED <<selectedCalculator, units, result, showFormula, threw>>
    /\ UNCHANGED <<call, hvars>>

\* The effect on [inputs.measurementType, selectedCalculator].
unitConversionEffect ==
    /\ effectDue
    /\ LET currentType == Get(inputs, "measurementType").s
           newAvailableUnits ==
               IF currentType \in Families THEN UnitKeys(currentType) ELSE <<>>
           first == IF Len(newAvailableUnits) >= 1
                    THEN Str(newAvailableUnits[1]) ELSE Undef
           second == IF Len(newAvailableUnits) >= 2
                     THEN Str(newAvailableUnits[2]) ELSE first
           stale(f) == \/ ~ToBoolean(Get(inputs, f))
                       \/ Get(inputs, f).s \notin SeqRange(newAvailableUnits)
           keys == DOMAIN inputs \cup (IF stale("fromUnit") THEN {"fromUnit"} ELSE {})
                                 \cup (IF stale("toUnit") THEN {"toUnit"} ELSE {})
       IN  inputs' = [k \in keys |->
                        IF k = "fromUnit" /\ stale("fromUnit") THEN first
                        ELSE IF k = "toUnit" /\ stale("toUnit") THEN second
                        ELSE inputs[k]]
    /\ effectDue' = FALSE
    /\ UNCHANGED <<selectedCalculator, units, result, showFormula, threw>>
    /\ UNCHANGED <<call, hvars>>

\* calculateResult: setResult is reached unless the switch threw.
calculateResult ==
    /\ selectedCalculator # ""
    /\ ~effectDue
    /\ \E r \in {Evaluate(selectedCalculator, inputs, units)} :
          IF r.threw
          THEN threw' = TRUE /\ UNCHANGED result
          ELSE /\ threw' = FALSE
               /\ result' = [set |-> TRUE, value |-> r.value,
                             explanation |-> r.explanation]
    /\ UNCHANGED <<selectedCalculator, inputs, units, showFormula, effectDue>>
    /\ UNCHANGED <<call, hvars>>

\* The "Ver Formula" button, absent from the unit converter.
toggleFormula ==
    /\ selectedCalculator \notin {"", "unit-conversion"}
    /\ showFormula' = ~showFormula
    /\ threw' = FALSE
    /\ UNCHANGED <<selectedCalculator, inputs, units, result, effectDue>>
    /\ UNCHANGED <<call, hvars>>

\* The result panel is rendered.
Displayed == result.set /\ result.value.t # "null" /\ ~isNaN(result.value)

\* The unit label rendered next to the displayed value (m3/s stands for
\* m^3/s, kg/m3 for kg/m^3).
getResultUnit(calculatorId, currentInputs) ==
    CASE calculatorId = "flow-rate" -> "m3/s"
      [] calculatorId = "velocity-flow" -> "m/s"
      [] calculatorId = "pressure" -> "Pa"
      [] calculatorId = "density" -> "kg/m3"
      [] calculatorId = "water-column" -> "m"
      [] calculatorId \in {"reynolds", "relative-roughness", "friction-factor"} ->
            "(adimensional)"
      [] calculatorId \in {"head-loss", "energy-equation", "npsh"} -> "m"
      [] calculatorId = "pump-power" -> "W"
      [] calculatorId = "bernoulli" -> "Pa"
      [] calculatorId = "unit-conversion" ->
            IF ToBoolean(Get(currentInputs, "toUnit"))
            THEN Get(currentInputs, "toUnit").s ELSE ""
      [] OTHER -> ""

\* The steps of the Calculator.
CalcNext ==
    \/ \E c \in calculatorCategories : handleCategorySelect(c)
    \/ handleBack
    \/ /\ selectedCalculator \in DOMAIN inputConfigs
       /\ \E cfg \in EditedConfigs(selectedCalculator) :
            \/ \E text \in Texts : handleInputChange(cfg.field, text)
            \/ \E unit \in ExploredUnits(cfg) : handleUnitChange(cfg.field, unit)
    \/ /\ selectedCalculator = "unit-conversion"
       /\ \/ \E text \in Texts : handleInputChange("value", text)
          \/ \E mt \in ExploredTypes : handleInputChange("measurementType", mt)
          \/ \E u \in ExploredConversionUnits(inputs) :
                handleInputChange("fromUnit", u) \/ handleInputChange("toUnit", u)
    \/ unitConversionEffect
    \/ calculateResult
    \/ toggleFormula

Init == HInit /\ CInit

\* The History Store.
Spec == Init /\ [][Next]_vars

CalcInit == HInit /\ blob = Absent /\ CInit

\* The Calculator.
SpecCalc == CalcInit /\ [][CalcNext]_vars

(***************************************************************************)
(* Calculate on drawn inputs                                               *)
(***************************************************************************)
\* The categories whose Calculate is applied to drawn inputs.
EvalCategories ==
    {"flow-rate", "velocity-flow", "pressure", "density", "relative-roughness",
     "reynolds", "unit-conversion"}

\* Values handleInputChange can have stored in a field, drawn in this model.
\* For reynolds they put Re below, on, between and above 2300 and 4000.
DrawnValues(c, field) ==
    CASE c = "reynolds" /\ field = "density" -> {Whole(1000), Whole(1150), Whole(1500)}
      [] c = "reynolds" /\ field = "velocity" -> {Whole(2), Whole(4), Str("0")}
      [] c = "reynolds" /\ field = "diameter" -> {Whole(1)}
      [] c = "reynolds" /\ field = "viscosity" -> {Whole(1000), Str("0")}
      [] c # "reynolds" /\ field \in {"area", "volume", "diameter"} ->
            {Whole(2), Whole(3), Str("0")}
      [] OTHER -> {Whole(2), Whole(100), Str("0")}

\* A field's selector left untouched ("") or set to one of its options.
DrawnUnitsOf(cfg) == {""} \cup ExploredUnits(cfg)

\* The object obj with obj[key] = val.
With(obj, key, val) ==
    [k \in DOMAIN obj \cup {key} |-> IF k = key THEN val ELSE obj[k]]

\* The inputs objects over the fields cfgs[i..] with drawn values.
RECURSIVE DrawnInputsFrom(_, _, _)
DrawnInputsFrom(c, cfgs, i) ==
    IF i > Len(cfgs) THEN {EmptyObject}
    ELSE {With(rest, cfgs[i].field, v) :
            rest \in DrawnInputsFrom(c, cfgs, i + 1),
            v \in DrawnValues(c, cfgs[i].field)}

\* The units objects over the fields cfgs[i..]: a field whose selector was
\* never touched has no key.
RECURSIVE DrawnUnitsFrom(_, _)
DrawnUnitsFrom(cfgs, i) ==
    IF i > Len(cfgs) THEN {EmptyUnits}
    ELSE {IF u = "" THEN rest ELSE With(rest, cfgs[i].field, u) :
            rest \in DrawnUnitsFrom(cfgs, i + 1),
            u \in DrawnUnitsOf(cfgs[i])}

\* The units of a family offered by the from/to selectors, drawn in this
\* model: every key of the family whose factor this model represents.
DrawnConversionUnits(mt) == SeqRange(UnitKeys(mt)) \ {"gal/min (US)"}

\* The inputs of the unit converter after the effect has settled them.
DrawnConversions ==
    {[value |-> v, measurementType |-> Str(mt), fromUnit |-> Str(from),
      toUnit |-> Str(to)] :
        v \in {Whole(1), Whole(2), Str("0")},
        mt \in Families,
        from \in UNION {DrawnConversionUnits(m) : m \in Families},
        to \in UNION {DrawnConversionUnits(m) : m \in Families}}

DrawnInputs(c) ==
    IF c = "unit-conversion"
    THEN {ins \in DrawnConversions :
            /\ ins.fromUnit.s \in DrawnConversionUnits(ins.measurementType.s)
            /\ ins.toUnit.s \in DrawnConversionUnits(ins.measurementType.s)}
    ELSE DrawnInputsFrom(c, inputConfigs[c], 1)

DrawnUnits(c) ==
    IF c = "unit-conversion" THEN {EmptyUnits}
    ELSE DrawnUnitsFrom(inputConfigs[c], 1)

\* A category is open with its fields filled and its selectors set.
EvalInit ==
    /\ HInit
    /\ blob = Absent
    /\ selectedCalculator \in EvalCategories
    /\ inputs \in DrawnInputs(selectedCalculator)
    /\ units \in DrawnUnits(selectedCalculator)
    /\ result = NoResult
    /\ showFormula = FALSE
    /\ effectDue = FALSE
    /\ threw = FALSE
    /\ call = NoCall

EvalNext == calculateResult

\* Calculate on drawn inputs.
SpecEval == EvalInit /\ [][EvalNext]_vars

(***************************************************************************)
(* The helpers convertToSI and formatResultValue on drawn arguments        *)
(***************************************************************************)
RECURSIVE Pow10(_)
Pow10(k) == IF k = 0 THEN 1 ELSE 10 * Pow10(k - 1)

\* The number of decimal digits of the natural number n (1 for 0).
RECURSIVE DigitsOf(_)
DigitsOf(n) == IF n < 10 THEN 1 ELSE 1 + DigitsOf(n \div 10)

\* a / b rounded to the nearest integer, a tie going up (a >= 0, b > 0).
RoundHalfUp(a, b) == (a \div b) + (IF 2 * (a % b) >= b THEN 1 ELSE 0)

\* Long division: the first k decimals of r / d (0 <= r < d) as the integer
\* acc, with the remainder left after them.
RECURSIVE Decimals(_, _, _, _)
Decimals(r, d, k, acc) ==
    IF k = 0 THEN [digits |-> acc, rem |-> r]
    ELSE Decimals((r * 10) % d, d, k - 1, acc * 10 + (r * 10) \div d)

\* The number of zeros that follow the decimal point of r / d (0 < r < d).
RECURSIVE LeadingZeros(_, _)
LeadingZeros(r, d) == IF r * 10 >= d THEN 0 ELSE 1 + LeadingZeros(r * 10, d)

\* A text written by a number conversion: '' ("empty"), Infinity or NaN
\* ("word"), digits with fracLen decimals ("plain"), or one digit, fracLen
\* decimals and an exponent ("exp").
Text(kind, neg, int, fracLen, frac, exp) ==
    [kind |-> kind, neg |-> neg, int |-> int, fracLen |-> fracLen, frac |-> frac,
     exp |-> exp]

EmptyText == Text("empty", FALSE, 0, 0, 0, 0)

Word(neg) == Text("word", neg, 0, 0, 0, 0)

\* |n| / d written with k decimals, rounded half up.
FixedDigits(neg, n, d, k) ==
    LET dec == Decimals(n % d, d, k, 0)
        frac == dec.digits + (IF 2 * dec.rem >= d THEN 1 ELSE 0)
    IN  IF frac = Pow10(k)
        THEN Text("plain", neg, n \div d + 1, k, 0, 0)
        ELSE Text("plain", neg, n \div d, k, frac, 0)

\* Number.prototype.toFixed(k) on a number below 10^21: an infinity or NaN
\* gives its name.
toFixed(v, k) ==
    IF v.t # "num" THEN Word(v.t = "inf" /\ v.n < 0)
    ELSE FixedDigits(v.n < 0, Abs(v.n), v.d, k)

\* The decimal exponent of n / d > 0: the position of its first digit.
ExponentOf(n, d) ==
    IF n >= d THEN DigitsOf(n \div d) - 1 ELSE -(1 + LeadingZeros(n, d))

\* The six significant digits of n / d > 0, whose first digit has exponent
\* e, rounded half up (1000000 when the rounding carries).
SixDigits(n, d, e) ==
    IF e >= 5 THEN RoundHalfUp(n, d * Pow10(e - 5))
    ELSE IF e >= 0
    THEN LET f == FixedDigits(FALSE, n, d, 5 - e)
         IN  f.int * Pow10(5 - e) + f.frac
    ELSE LET dec == Decimals(n * Pow10(-e - 1), d, 6, 0)
         IN  dec.digits + (IF 2 * dec.rem >= d THEN 1 ELSE 0)

\* The digits m (six of them) with exponent e as toPrecision writes them:
\* exponent notation when e is below -6 or above 5.
PrecisionText(neg, m, e) ==
    IF e < -6 \/ e >= 6
    THEN Text("exp", neg, m \div Pow10(5), 5, m % Pow10(5), e)
    ELSE IF e < 0 THEN Text("plain", neg, 0, 5 - e, m, 0)
    ELSE Text("plain", neg, m \div Pow10(5 - e), 5 - e, m % Pow10(5 - e), 0)

\* A rounding that carries gives 100000 with the next exponent.
Carried(neg, m, e) ==
    IF m = Pow10(6) THEN PrecisionText(neg, Pow10(5), e + 1)
    ELSE PrecisionText(neg, m, e)

Rounded(neg, n, d, e) == Carried(neg, SixDigits(n, d, e), e)

\* Number.prototype.toPrecision(6): an infinity or NaN gives its name.
toPrecision6(v) ==
    IF v.t # "num" THEN Word(v.t = "inf" /\ v.n < 0)
    ELSE IF v.n = 0 THEN Text("plain", FALSE, 0, 5, 0, 0)
    ELSE Rounded(v.n < 0, Abs(v.n), v.d, ExponentOf(Abs(v.n), v.d))

\* parseFloat(text).toString() of a text written by toFixed(6): the same
\* number without its trailing zeros.
RECURSIVE Shortest(_)
Shortest(x) ==
    IF x.kind # "plain" THEN x
    ELSE IF x.fracLen > 0 /\ x.frac % 10 = 0
    THEN Shortest([x EXCEPT !.fracLen = x.fracLen - 1, !.frac = x.frac \div 10])
    ELSE IF x.int = 0 /\ x.frac = 0 THEN [x EXCEPT !.neg = FALSE]
    ELSE x

\* Math.abs(value)
MathAbs(v) ==
    CASE v.t = "num" -> [v EXCEPT !.n = Abs(v.n)]
      [] v.t = "inf" -> Inf(1)
      [] OTHER -> v

\* formatResultValue(value, calculatorId)
formatResultValue(value, calculatorId) ==
    IF value.t = "null" \/ isNaN(value) THEN EmptyText
    ELSE IF calculatorId = "reynolds" THEN toFixed(value, 0)
    ELSE IF \/ Less(Whole(10000), MathAbs(value))
            \/ (Less(MathAbs(value), Num(1, 1000)) /\ Less(Whole(0), MathAbs(value)))
    THEN toPrecision6(value)
    ELSE Shortest(toFixed(value, 6))

\* The unit labels of the registry and of the selectors, '%' among them.
DrawnLabels ==
    (UNION {SeqRange(UnitKeys(f)) : f \in Families} \ {"gal/min (US)"}) \cup {"%"}

\* The unit types of the input configurations: the families of the registry
\* and the two types the registry does not hold.
DrawnUnitTypes == Families \cup {"percentage", "dimensionless"}

\* Calls convertToSI(value, "diameter", unitType).
ConvertCalls ==
    {[fn |-> "convertToSI", value |-> v, field |-> "diameter", unitType |-> ut,
      done |-> FALSE, ret |-> Undef] :
        v \in {Whole(2), Num(-3, 2), Str("0")}, ut \in DrawnUnitTypes}

\* Values a result holds in this model: null, NaN, the infinities, zero, the
\* thresholds 10000 and 0.001, and numbers on either side of them.
DrawnResultValues ==
    {Null, NaN, Inf(1), Inf(-1), Whole(0), Whole(2), Whole(-2), Num(5, 2), Num(-5, 2),
     Whole(2300), Num(4601, 2), Whole(200000), Whole(10000), Whole(-10000),
     Whole(10001), Num(20001, 2), Num(12345678, 1000), Whole(-20000),
     Num(9999996, 100), Whole(1234567), Whole(2000000000),
     Num(1, 1000), Num(-1, 1000), Num(1, 2000), Num(-1, 2000), Num(99999, 100000000),
     Num(1, 100000000), Num(123456789, 1000000), Num(1234567894, 10000000),
     Num(2499999, 2500000), Num(1, 3), Num(2, 3)}

\* Calls formatResultValue(value, calculatorId).
FormatCalls ==
    {[fn |-> "formatResultValue", value |-> v, calculatorId |-> c,
      done |-> FALSE, ret |-> EmptyText] :
        v \in DrawnResultValues, c \in {"reynolds", "pressure"}}

\* The diameter selector untouched or set to a label.
FnInit ==
    /\ HInit
    /\ blob = Absent
    /\ selectedCalculator = ""
    /\ inputs = EmptyObject
    /\ result = NoResult
    /\ showFormula = FALSE
    /\ effectDue = FALSE
    /\ threw = FALSE
    /\ \/ /\ call \in ConvertCalls
          /\ units \in {EmptyUnits} \cup {[diameter |-> u] : u \in DrawnLabels}
       \/ /\ call \in FormatCalls
          /\ units = EmptyUnits

\* The call convertToSI(value, field, unitType) returns.
ReturnConvertToSI ==
    /\ call.fn = "convertToSI"
    /\ ~call.done
    /\ call' = [call EXCEPT !.done = TRUE,
                            !.ret = convertToSI(units, call.value, call.field,
                                                call.unitType)]
    /\ UNCHANGED <<selectedCalculator, inputs, units, result, showFormula, effectDue,
                   threw>>
    /\ UNCHANGED hvars

\* The call formatResultValue(value, calculatorId) returns.
ReturnFormatResultValue ==
    /\ call.fn = "formatResultValue"
    /\ ~call.done
    /\ call' = [call EXCEPT !.done = TRUE,
                            !.ret = formatResultValue(call.value, call.calculatorId)]
    /\ UNCHANGED <<selectedCalculator, inputs, units, result, showFormula, effectDue,
                   threw>>
    /\ UNCHANGED hvars

FnNext == ReturnConvertToSI \/ ReturnFormatResultValue

\* The helpers on drawn arguments.
SpecFn == FnInit /\ [][FnNext]_vars

(***************************************************************************)
(* History Store: claims                                                   *)
(***************************************************************************)
\* No update is pending: every setHistory has been rendered and saved.
Quiescent == Live /\ queue = <<>> /\ ~saveDue

\* A render step (the queue is processed by the mounted component).
RenderStep == Live /\ ~saveDue /\ queue # <<>> /\ queue' = <<>> /\ mounted'

\* The entries of a queue of adds, newest first.
RECURSIVE AddedNewestFirst(_)
AddedNewestFirst(q) ==
    IF q = <<>> THEN <<>> ELSE AddedNewestFirst(Tail(q)) \o <<Head(q).entry>>

OnlyAdds(q) == \A i \in 1..Len(q) : q[i].op = "add"

C2_AddPrependsEvictsOldest ==
    [][ (RenderStep /\ OnlyAdds(queue) /\ history.isList) =>
          LET new == AddedNewestFirst(queue)
              all == new \o history.items
              keep == IF Len(all) < MAX_HISTORY THEN Len(all) ELSE MAX_HISTORY
          IN  /\ history'.isList
              /\ Len(history'.items) = keep
              /\ \A i \in 1..keep : history'.items[i] = all[i]
              /\ evicted' = Len(all) - keep ]_vars

C2_Witness_OldestEvicted ==
    /\ evicted = 1
    /\ Len(history.items) = MAX_HISTORY
    /\ history.items[1].id # history.items[MAX_HISTORY].id

\* No entry of the log holds NaN or an infinity, which JSON cannot write.
JSONSafe(v) == \A i \in 1..Len(v.items) : v.items[i].result # "nonfinite"

C4_LoadFallsBackToEmptyLog ==
    [][ (~mounted /\ mounted' /\ ~(blob.kind = "json" /\ blob.doc = "array")) =>
          (queue' = <<>> /\ history' = EmptyLog /\ ~crashed') ]_vars

\* C10: the ids of the entries of the log are pairwise distinct and strictly
\* increasing in creation order (the log is newest first).
C10_IdsStrictlyIncreasing ==
    \A i, j \in 1..Len(history.items) :
        i < j => history.items[i].id > history.items[j].id

\* The sequence s without its k-th element.
Without(s, k) == SubSeq(s, 1, k - 1) \o SubSeq(s, k + 1, Len(s))

\* C11: a render that applies one remove(id) leaves the log unchanged when no
\* entry has that id, and otherwise deletes one entry, the one with that id,
\* keeping every other entry and their order.
C11_RemoveDeletesOneEntry ==
    [][ (RenderStep /\ Len(queue) = 1 /\ queue[1].op = "remove" /\ history.isList) =>
          LET hits == {k \in 1..Len(history.items) : history.items[k].id = queue[1].id}
          IN  /\ history'.isList
              /\ IF hits = {} THEN history'.items = history.items
                 ELSE \E k \in hits : history'.items = Without(history.items, k) ]_vars

\* C12: a render that applies clear leaves the log empty whatever it held,
\* and an add applied to the empty log yields a log of exactly that entry.
C12_ClearEmptiesThenAddGivesOne ==
    [][ /\ (RenderStep /\ queue = <<SetUpdate(EmptyLog)>>) => history' = EmptyLog
        /\ (RenderStep /\ history = EmptyLog /\ Len(queue) = 1 /\ queue[1].op = "add")
              => history' = [isList |-> TRUE, items |-> <<queue[1].entry>>] ]_vars

\* A full log has just been cleared: the stored text still holds 25 entries.
C12_Witness_FullLogCleared ==
    /\ Live
    /\ saveDue
    /\ history = EmptyLog
    /\ Len(blob.elems) = MAX_HISTORY

\* C13: every addition through window.addCalculation dispatches the
\* 'historyUpdated' event to the subscribed observers.
C13_AddNotifiesObservers ==
    [][ added' = added + 1 => dispatched' = dispatched + 1 ]_vars

\* C14: handling the change notification is harmless: on a well-formed log
\* it installs a well-formed log, however often it is handled.
C14_NotificationKeepsLogWellFormed ==
    [][ (handleHistoryUpdate /\ history.isList /\ queue' # queue)
          => queue'[Len(queue')].val.isList ]_vars

\* The startup sequence restores what was persisted: the load effect queues
\* the stored list and the render that follows installs it.
StartupRestores ==
    /\ (Mount /\ blob.kind = "json" /\ blob.doc = "array")
          => queue' = <<SetUpdate([isList |-> TRUE, items |-> blob.elems])>>
    /\ (RenderStep /\ Len(queue) = 1 /\ queue[1].op = "set")
          => history' = queue[1].val

Blank(v) == v = Undef \/ v = Str("")

\* A field in which the user entered zero.
EnteredZero(v) == v \in {Str("0"), Str("-0"), Num(0, 1)}

NullResult == [set |-> TRUE, value |-> Null, explanation |-> NoExplanation]

\* C5: when a required field is blank or absent, Calculate sets a result of
\* value null with an empty derivation, the result panel is not displayed
\* afterwards and the history store is not touched.
C5_BlankFieldGivesNullResult ==
    [][ (calculateResult /\ \E f \in Required(selectedCalculator) : Blank(Get(inputs, f)))
          => (result' = NullResult /\ ~Displayed' /\ ~threw'
              /\ UNCHANGED <<history, queue, blob>>) ]_vars

C5_Witness_BlankAfterErase ==
    /\ selectedCalculator = "pressure"
    /\ Get(inputs, "force") = Num(2, 1)
    /\ Get(inputs, "area") = Str("")
    /\ result = NullResult

\* C6: a result value that is NaN, +Infinity or -Infinity is never displayed
\* in the result panel.
C6_InvalidNeverDisplayed == Displayed => result.value.t \notin {"nan", "inf"}

\* C7: Calculate never ends in an exception.
C7_CalculateNeverThrows == ~threw

\* The unit selector of a field shows units[field] || defaultUnit.
WithDefaultUnits(c, us) ==
    [f \in FieldsOf(c) |->
        IF UnitAt(us, f) # "" THEN us[f] ELSE ConfigOf(c, f).defaultUnit]

\* C8: the value of a completed calculation is the formula over the inputs
\* converted with the chosen unit or, where none is chosen, the field's
\* default unit.
C8_DefaultUnitIsApplied ==
    [][ (calculateResult /\ selectedCalculator \in DOMAIN inputConfigs
         /\ Present(selectedCalculator, inputs) /\ ~threw')
          => result'.value
               = Formula(selectedCalculator, inputs,
                         WithDefaultUnits(selectedCalculator, units)) ]_vars

\* C9: a required field holding an entered zero makes Calculate set the null
\* result with no derivation, as a blank field does.
C9_ZeroTreatedAsMissing ==
    [][ (calculateResult
         /\ \E f \in Required(selectedCalculator) : EnteredZero(Get(inputs, f)))
          => (result' = NullResult /\ ~threw') ]_vars

\* The ratio factor(fromUnit) / factor(toUnit) of two units of a family.
FactorRatio(mt, from, to) == Div(FactorOf(mt, from), FactorOf(mt, to))

ShownUnit(c, us, f) ==
    IF UnitAt(us, f) # "" THEN us[f] ELSE ConfigOf(c, f).defaultUnit

\* The entered value of a field in SI: the value times the factor of the
\* unit its selector shows.
InSI(c, ins, us, f) ==
    Mul(Get(ins, f), FactorOf(ConfigOf(c, f).unitType, ShownUnit(c, us, f)))

\* a >= b; any comparison with NaN is false.
AtLeast(a, b) == ~isNaN(a) /\ ~isNaN(b) /\ ~Less(a, b)

\* C17: Calculate on reynolds sets the value to Re = rho * v * D / mu over
\* the inputs in SI, and the regime of the derivation is Laminar exactly
\* when Re < 2300, Transicao exactly when 2300 <= Re < 4000 and Turbulento
\* exactly when Re >= 4000: one of the three for every computed Re.
C17_ReynoldsValueAndRegime ==
    [][ (calculateResult /\ selectedCalculator = "reynolds"
         /\ Present("reynolds", inputs) /\ ~threw')
          => /\ result'.value
                  = Div(Mul(Mul(InSI("reynolds", inputs, units, "density"),
                                InSI("reynolds", inputs, units, "velocity")),
                            InSI("reynolds", inputs, units, "diameter")),
                        InSI("reynolds", inputs, units, "viscosity"))
             /\ result'.explanation.regime \in {"Laminar", "Transicao", "Turbulento"}
             /\ (result'.explanation.regime = "Laminar")
                   <=> Less(result'.value, Whole(2300))
             /\ (result'.explanation.regime = "Transicao")
                   <=> (AtLeast(result'.value, Whole(2300))
                        /\ Less(result'.value, Whole(4000)))
             /\ (result'.explanation.regime = "Turbulento")
                   <=> AtLeast(result'.value, Whole(4000)) ]_vars

TwoFieldCategories ==
    {"flow-rate", "velocity-flow", "pressure", "density", "relative-roughness"}

\* The tabulated formula of a two-field category over the inputs in SI.
Tabulated(c, ins, us) ==
    CASE c = "flow-rate" ->
            Mul(InSI(c, ins, us, "velocity"), InSI(c, ins, us, "area"))
      [] c = "velocity-flow" ->
            Div(InSI(c, ins, us, "flow"), InSI(c, ins, us, "area"))
      [] c = "pressure" ->
            Div(InSI(c, ins, us, "force"), InSI(c, ins, us, "area"))
      [] c = "density" ->
            Div(InSI(c, ins, us, "mass"), InSI(c, ins, us, "volume"))
      [] c = "relative-roughness" ->
            Div(InSI(c, ins, us, "roughness"), InSI(c, ins, us, "diameter"))

\* C20: for the two-field categories Calculate sets the value to the
\* tabulated formula over the inputs in SI (flow-rate v*A, velocity-flow Q/A,
\* pressure F/A, density m/V, relative-roughness e/D), whatever units the
\* selectors show.
C20_TwoFieldFormulas ==
    [][ (calculateResult /\ selectedCalculator \in TwoFieldCategories
         /\ Present(selectedCalculator, inputs) /\ ~threw')
          => result'.value = Tabulated(selectedCalculator, inputs, units) ]_vars

\* The registry holds a factor for the unit in the family.
Registered(family, unit) ==
    /\ family \in DOMAIN unitConversions
    /\ \E i \in 1..Len(unitConversions[family]) : unitConversions[family][i].unit = unit

\* C18: convertToSI returns the raw value unchanged when no unit is chosen
\* for the field, when the chosen unit is unknown to the family or when the
\* family is absent from the registry, and the raw value times
\* factorOf(family, unit) in every other case.
C18_ConvertToSIPassesThroughOrScales ==
    [][ ReturnConvertToSI
          => IF \/ call.field \notin DOMAIN units
                \/ ~Registered(call.unitType, units[call.field])
             THEN call'.ret = call.value
             ELSE call'.ret = Mul(call.value,
                                  FactorOf(call.unitType, units[call.field])) ]_vars

\* convertToSI has scaled 2 cm to 0.02 m.
C18_Witness_Scaled ==
    /\ call.fn = "convertToSI"
    /\ call.done
    /\ call.value = Whole(2)
    /\ call.unitType = "length"
    /\ units = [diameter |-> "cm"]
    /\ call.ret = Num(1, 50)

\* The number of significant digits a text shows.
SignificantDigits(x) ==
    CASE x.kind = "exp" -> 1 + x.fracLen
      [] x.kind = "plain" /\ x.int > 0 -> DigitsOf(x.int) + x.fracLen
      [] x.kind = "plain" /\ x.int = 0 -> DigitsOf(x.frac)
      [] OTHER -> 0

\* The number a plain text denotes.
TextValue(x) ==
    Num((IF x.neg THEN -1 ELSE 1) * (x.int * Pow10(x.fracLen) + x.frac),
        Pow10(x.fracLen))

\* The plain text x is the number v rounded to k decimals.
RoundedTo(x, v, k) ==
    /\ x.kind = "plain"
    /\ x.fracLen <= k
    /\ ~Less(Num(1, 2 * Pow10(k)), MathAbs(Sub(TextValue(x), v)))

\* C19: formatResultValue picks its presentation by these rules in this
\* order: null or NaN gives the empty string; category reynolds gives zero
\* decimals; |value| > 10000 or 0 < |value| < 0.001 gives six significant
\* digits; every other value gives the decimal rounded to six decimals with
\* its trailing zeros stripped.
C19_FormatFollowsRulesInOrder ==
    [][ ReturnFormatResultValue
          => IF call.value.t \in {"null", "nan"}
             THEN call'.ret.kind = "empty"
             ELSE IF call.calculatorId = "reynolds"
             THEN call'.ret.kind # "empty" /\ call'.ret.fracLen = 0
             ELSE IF \/ Less(Whole(10000), MathAbs(call.value))
                     \/ (/\ Less(Whole(0), MathAbs(call.value))
                         /\ Less(MathAbs(call.value), Num(1, 1000)))
             THEN SignificantDigits(call'.ret) = 6
             ELSE /\ RoundedTo(call'.ret, call.value, 6)
                  /\ call'.ret.fracLen > 0 => call'.ret.frac % 10 # 0 ]_vars

\* The factor n / (d * q) of a row is 1.
IsBase(row) == row.n % row.d = 0 /\ row.n \div row.d = row.q

\* One unit of the family has factor 1, every factor is strictly positive
\* and no label occurs twice.
WellFormedFamily(rows) ==
    /\ Cardinality({i \in 1..Len(rows) : IsBase(rows[i])}) = 1
    /\ \A i \in 1..Len(rows) : rows[i].n > 0 /\ rows[i].d > 0 /\ rows[i].q > 0
    /\ \A i, k \in 1..Len(rows) : rows[i].unit = rows[k].unit => i = k

\* C21: every family of the registry has exactly one unit of factor 1,
\* strictly positive factors and unique labels, and convertToSI returns a
\* value given in the family's base unit as it is.
C21_RegistryBaseUnitIsIdentity ==
    [][ /\ \A family \in Families : WellFormedFamily(unitConversions[family])
        /\ (/\ ReturnConvertToSI
            /\ call.field \in DOMAIN units
            /\ call.unitType \in Families
            /\ \E i \in 1..Len(unitConversions[call.unitType]) :
                  /\ unitConversions[call.unitType][i].unit = units[call.field]
                  /\ IsBase(unitConversions[call.unitType][i]))
              => call'.ret = ToNumber(call.value) ]_vars

\* convertToSI has returned 2 for 2 m.
C21_Witness_BaseUnit ==
    /\ call.fn = "convertToSI"
    /\ call.done
    /\ call.value = Whole(2)
    /\ call.unitType = "length"
    /\ units = [diameter |-> "m"]
    /\ call.ret = Whole(2)

\* The keys the history list reads from an entry: the name, the time, the
\* result with the unit next to it, and in the expanded view the formula
\* and the derivation.
ReadKeys ==
    {"id", "calculatorName", "calculator", "timestamp", "result", "resultUnit",
     "formula", "explanation"}

\* C22: every entry created by add carries the category name, the result
\* value, the output unit, the derivation, the formula and the timestamp,
\* under the keys the history list reads: resultUnit for the unit next to
\* the result and explanation for the derivation of the expanded view.
C22_EntryCarriesWhatTheListReads ==
    [][ (RenderStep /\ Len(queue) = 1 /\ queue[1].op = "add" /\ history.isList)
          => /\ history'.items[1] = queue[1].entry
             /\ {"calculator", "result", "resultUnit", "explanation", "formula",
                 "timestamp"} \subseteq history'.items[1].keys
             /\ \A k \in {"resultUnit", "explanation"} :
                   k \in ReadKeys /\ k \in history'.items[1].keys ]_vars

\* The log persisted under the history key; an absent, empty or unparseable
\* value counts as the empty log.
PersistedLog(b) == IF Truthy(b) /\ ~ParseThrows(b) THEN Parse(b) ELSE EmptyLog

\* The stored value the next render finds: a render waits for the pending
\* save effect, which writes the in-memory log.
StoredAtNextRender == IF saveDue THEN Stringify(history) ELSE blob

\* C23: the update a handled notification queues installs, at the render that
\* applies it, the log persisted at that moment (absent, empty or
\* unparseable read as the empty log).
C23_NotificationInstallsPersistedLog ==
    [][ handleHistoryUpdate
          => queue' = Append(queue, SetUpdate(PersistedLog(StoredAtNextRender))) ]_vars

\* The newest in-memory entry was created by add (its id is a clock reading)
\* and its write-through has not reached the store.
AddAwaitsWrite ==
    /\ saveDue
    /\ history.isList
    /\ history.items # <<>>
    /\ history.items[1].id >= 0
    /\ \A i \in 1..Len(blob.elems) : blob.elems[i].id # history.items[1].id

\* C25: a notification handled while an added entry awaits its write-through
\* does not lose the entry: the log the handler queues for installation
\* still holds it.
C25_AddedEntrySurvivesReRead ==
    [][ (handleHistoryUpdate /\ AddAwaitsWrite /\ queue' # queue)
          => \E i \in 1..Len(queue'[Len(queue')].val.items) :
                queue'[Len(queue')].val.items[i].id = history.items[1].id ]_vars

\* The stored value is a non-empty list.
HoldsEntries(b) == b.kind = "json" /\ b.doc = "array" /\ b.elems # <<>>

C30_RemoveShortensByAtMostOne ==
    [][ (RenderStep /\ Len(queue) = 1 /\ queue[1].op = "remove" /\ history.isList)
          => Len(history'.items) >= Len(history.items) - 1 ]_vars

\* What handleCategorySelect leaves in inputs for a category.
FreshInputs(c) ==
    IF c = "unit-conversion"
    THEN [measurementType |-> Str("pressure"), value |-> Str("")]
    ELSE EmptyObject

C27_LabelFollowsDisplayedValue ==
    [][ (/\ selectedCalculator = "unit-conversion"
         /\ selectedCalculator' = selectedCalculator
         /\ Displayed
         /\ ~IsZero(result.value)
         /\ result' = result)
          => getResultUnit(selectedCalculator', inputs')
                = getResultUnit(selectedCalculator, inputs) ]_vars

\* C28: in the unit converter, once the effect has run, measurementType is a
\* family of the registry and fromUnit and toUnit are units of that family.
C28_ConversionUnitsBelongToFamily ==
    (selectedCalculator = "unit-conversion" /\ ~effectDue)
      => /\ Get(inputs, "measurementType").t = "str"
         /\ Get(inputs, "measurementType").s \in Families
         /\ \A f \in {"fromUnit", "toUnit"} :
               /\ Get(inputs, f).t = "str"
               /\ HasUnit(Get(inputs, "measurementType").s, Get(inputs, f).s)

\* The measurement type was changed to velocity, the effect replaced both
\* pressure units, and Calculate has run.
C28_Witness_UnitsReplaced ==
    /\ selectedCalculator = "unit-conversion"
    /\ ~effectDue
    /\ Get(inputs, "measurementType") = Str("velocity")
    /\ Get(inputs, "fromUnit") = Str(UnitKeys("velocity")[1])
    /\ Get(inputs, "toUnit") = Str(UnitKeys("velocity")[2])
    /\ Get(inputs, "value") = Whole(2)
    /\ Displayed

\* C29: a numeric field of inputs holds the blank marker '' or a number.
C29_NumericFieldsHoldNumbers ==
    \A k \in DOMAIN inputs \ {"measurementType", "fromUnit", "toUnit"} :
        inputs[k] = Str("") \/ inputs[k].t = "num"

=============================================================================
